---- MODULE Spec2Model ----
(***************************************************************************)
(* State-machine model of the email-assistant client:                      *)
(*   - ApiClient   (src/frontend/src/lib/api.ts, lines 45-204)             *)
(*   - useAuthStore (src/frontend/src/lib/api.ts, lines 223-293)           *)
(*   - useChatStore (src/frontend/src/app/dashboard/page.tsx, 76-193)      *)
(* Every async store operation is split at its awaits: the synchronous     *)
(* part up to the first await is one action, and each continuation after   *)
(* an await is another, so that other operations interleave exactly where  *)
(* the event loop lets them.                                               *)
(***************************************************************************)
EXTENDS Integers, Sequences, FiniteSets, TLC

\* ---------------------------------------------------------------- bounds
\* invocations of the stores' async operations (sendMessage, initializeChat,
\* clearChat, initialize, login, logout, setToken) over the process lifetime
MaxOps == 3

\* ------------------------------------------------------------ value sets
Null == "null"
\* an optional field: absent (undefined), or present with a value
None == <<>>
Some(x) == <<x>>

\* bearer tokens the backend may hand out
Tokens == {"tokA", "tokB"}

\* what localStorage may hold when the page loads: nothing, or the token a
\* previous page load persisted
InitialStorage == {Null, "tokA"}

\* user profiles /auth/me may return
Profiles == {"alice", "bob"}

\* characters String.prototype.trim() strips
Whitespace == {" ", "\t", "\n"}

\* texts a caller may pass to sendMessage
Texts == {<<>>, <<" ", "\n">>, <<"h", "i">>}

\* greeting returned by /chat/welcome
WelcomeTexts == {<<"w">>}

\* bodies /chat/message may answer with (ChatResponse, api.ts 37-43)
Responses ==
  { [message |-> <<"r", "1">>, action_type |-> None, emails |-> None,
     suggested_replies |-> None],
    [message |-> <<"r", "2">>, action_type |-> Some("read"),
     emails |-> Some(<<"e1", "e2">>), suggested_replies |-> None],
    [message |-> <<"r", "3">>, action_type |-> Some("reply"),
     emails |-> Some(<<>>), suggested_replies |-> Some(<<"s1">>)] }

\* how a request can end badly: a 401 response, another non-2xx response,
\* a rejected fetch (transport)
FailClasses == {"http401", "httpErr", "netErr"}

\* how verifyToken can throw: it reads the body of any response, so only a
\* rejected fetch or a body that is not JSON makes it throw
VerifyFailClasses == {"netErr", "badBody"}

VARIABLES
  token,            \* ApiClient.token (in memory)
  storage,          \* localStorage["auth_token"]
  user,             \* useAuthStore.user
  authIsLoading,    \* useAuthStore.isLoading
  isAuthenticated,  \* useAuthStore.isAuthenticated
  authError,        \* useAuthStore.error
  messages,         \* useChatStore.messages
  chatIsLoading,    \* useChatStore.isLoading
  chatError,        \* useChatStore.error
  recentEmails,     \* useChatStore.recentEmails
  messageIdCounter, \* module-level counter of generateId
  sends,            \* sendMessage calls suspended at their await: the id of
                    \* the call's user message, whether its request went
                    \* out, and (history) the text it was called with and the
                    \* messages it found
  pend,             \* other suspended calls, counted per suspension point
  calls,            \* invocations so far
  last              \* the step taken last (history)

gateway == <<token, storage>>
authStore == <<user, authIsLoading, isAuthenticated, authError>>
chatStore == <<messages, chatIsLoading, chatError, recentEmails,
               messageIdCounter, sends>>
vars == <<token, storage, user, authIsLoading, isAuthenticated, authError,
          messages, chatIsLoading, chatError, recentEmails, messageIdCounter,
          sends, pend, calls, last>>

\* suspension points of the calls counted in pend; a setToken(t) waiting for
\* /auth/me?token=t is counted under t, the token its request carries
Points == {"welcomeReq", "welcomeRej", "clearWelcomeReq", "clearWelcomeRej",
           "verifyReq", "verifyNone", "initMeReq", "initMeRej",
           "logoutReq", "logoutNone", "loginReq",
           "fetchEmails", "sendEmail", "deleteEmail", "mailboxRej"} \cup Tokens

Suspend(p) == [pend EXCEPT ![p] = @ + 1]
Resume(p) == [pend EXCEPT ![p] = @ - 1]
Move(p, q) == [pend EXCEPT ![p] = @ - 1, ![q] = @ + 1]

\* `last` names the call that settled in the step just taken, and how (a
\* clearError settles in the step that calls it); it is NoEvent after a step
\* that settled no call
\* (op: the operation, cls: how it ended, resp: what the server answered,
\* err: what was thrown, arg: the argument the call was made with)
NoEvent ==
  [op |-> "none", cls |-> "none", resp |-> None, err |-> None, arg |-> None]
Event(op, cls) ==
  [op |-> op, cls |-> cls, resp |-> None, err |-> None, arg |-> None]
EventOk(op, r) ==
  [op |-> op, cls |-> "ok", resp |-> Some(r), err |-> None, arg |-> None]
EventErr(op, cls, e) ==
  [op |-> op, cls |-> cls, resp |-> None, err |-> Some(e), arg |-> None]
WithArg(event, a) == [event EXCEPT !.arg = Some(a)]

\* ------------------------------------------------------------- ApiClient
\* getToken(): the in-memory token, else the persisted one (which it caches)
GetToken == IF token # Null THEN token ELSE storage

\* the value of `new Error(m)` and of the errors the runtime throws
Error(m) == [isError |-> TRUE, message |-> m]

\* what the runtime throws: fetch() rejecting, response.json() rejecting
RuntimeError(cls) ==
  IF cls = "netErr" THEN Error("TypeError: Failed to fetch")
  ELSE Error("SyntaxError: Unexpected token")

\* clearToken() without its localStorage.removeItem
ClearTokenMemoryOnly == token' = Null /\ storage' = storage

\* clearToken()
ClearToken == token' = Null /\ storage' = Null

\* sendChatMessage: what it throws when it fails in class cls
SendChatMessageError(cls) ==
  CASE cls = "noToken" -> Error("Not authenticated")
    [] cls = "http401" -> Error("Session expired")
    [] cls = "httpErr" -> Error("Failed to send message")
    [] OTHER -> RuntimeError(cls)

\* SendChatMessageClears with the 401 test left out
SendChatMessageClearsAlways(cls) == TRUE

\* sendChatMessage: whether a failure of class cls runs clearToken()
SendChatMessageClears(cls) == cls = "http401"

\* getWelcomeMessage: what it throws when it fails in class cls
GetWelcomeMessageError(cls) ==
  CASE cls = "noToken" -> Error("Not authenticated")
    [] cls \in {"http401", "httpErr"} -> Error("Failed to get welcome message")
    [] OTHER -> RuntimeError(cls)

\* getWelcomeMessage: whether a failure of class cls runs clearToken()
GetWelcomeMessageClears(cls) == FALSE

\* getCurrentUser: what it throws when it fails in class cls
GetCurrentUserError(cls) ==
  CASE cls = "noToken" -> Error("Not authenticated")
    [] cls = "http401" -> Error("Session expired")
    [] cls = "httpErr" -> Error("Failed to get user profile")
    [] OTHER -> RuntimeError(cls)

\* GetCurrentUserClears with the 401 test left out
GetCurrentUserClearsAlways(cls) == TRUE

\* getCurrentUser: whether a failure of class cls runs clearToken()
GetCurrentUserClears(cls) == cls = "http401"

\* the credential after a method failed: wiped, or left alone
AfterFailure(clears) == IF clears THEN ClearToken ELSE UNCHANGED gateway

\* the mailbox methods: fetchEmails, sendEmail, deleteEmail. No store calls
\* them; each is one request when there is a token and a throw otherwise.
\* A call waiting for its answer is counted under the method's name, one
\* rejected for want of a token under "mailboxRej"
MailboxOps == {"fetchEmails", "sendEmail", "deleteEmail"}

\* what a mailbox method throws when it fails in class cls
MailboxError(op, cls) ==
  CASE cls = "noToken" -> Error("Not authenticated")
    [] cls \in {"http401", "httpErr"} ->
         Error(CASE op = "fetchEmails" -> "Failed to fetch emails"
                 [] op = "sendEmail" -> "Failed to send email"
                 [] OTHER -> "Failed to delete email")
    [] OTHER -> RuntimeError(cls)

\* a mailbox method, up to its await of fetch
MailboxCall(op) ==
  /\ calls < MaxOps
  /\ token' = GetToken
  /\ pend' = Suspend(IF GetToken # Null THEN op ELSE "mailboxRej")
  /\ calls' = calls + 1
  /\ last' = NoEvent
  /\ UNCHANGED <<storage, authStore, chatStore>>

\* a mailbox method after a 2xx answer
MailboxOk(op) ==
  /\ pend[op] > 0
  /\ pend' = Resume(op)
  /\ last' = Event(op, "ok")
  /\ UNCHANGED <<gateway, authStore, chatStore, calls>>

\* a mailbox method throwing: after a non-2xx answer or a rejected fetch, or
\* at once for want of a token
MailboxFail(op, cls) ==
  /\ \/ cls \in FailClasses /\ pend[op] > 0 /\ pend' = Resume(op)
     \/ cls = "noToken" /\ pend["mailboxRej"] > 0
        /\ pend' = Resume("mailboxRej")
  /\ last' = EventErr(op, cls, MailboxError(op, cls))
  /\ UNCHANGED <<gateway, authStore, chatStore, calls>>

\* ------------------------------------------------------------ chat store
\* String.prototype.trim on a sequence of characters
RECURSIVE TrimStart(_)
TrimStart(s) ==
  IF s # <<>> /\ Head(s) \in Whitespace THEN TrimStart(Tail(s)) ELSE s

RECURSIVE TrimEnd(_)
TrimEnd(s) ==
  IF s # <<>> /\ s[Len(s)] \in Whitespace
  THEN TrimEnd(SubSeq(s, 1, Len(s) - 1)) ELSE s

Trim(s) == TrimEnd(TrimStart(s))

\* a ChatMessage; its timestamp (new Date()) is read by nothing in the
\* stores and is left out, and isLoading = FALSE stands for an absent field
Message(id, role, content, loading, emails, replies, action) ==
  [id |-> id, role |-> role, content |-> content, isLoading |-> loading,
   emails |-> emails, suggestedReplies |-> replies, actionType |-> action]

\* GenerateId reading the counter without the pre-increment
GenerateIdStale(n) == messageIdCounter + 1

\* generateId(): `msg_${++messageIdCounter}_${Date.now()}`; the id is
\* modelled by its counter part, n-th id generated in the current step
GenerateId(n) == messageIdCounter + n

UserMessage(id, content) ==
  Message(id, "user", content, FALSE, None, None, None)

LoadingMessage(id) ==
  Message(id, "assistant", <<>>, TRUE, None, None, None)

\* AssistantMessage with the suggested replies left off
AssistantMessageNoReplies(id, response) ==
  Message(id, "assistant", response.message, FALSE, response.emails,
          None, response.action_type)

AssistantMessage(id, response) ==
  Message(id, "assistant", response.message, FALSE, response.emails,
          response.suggested_replies, response.action_type)

\* the fixed apology of the catch branch, abbreviated
ApologyText == <<"S", "o", "r", "r", "y">>

ErrorMessage(id) ==
  Message(id, "assistant", ApologyText, FALSE, None, None, Some("error"))

WelcomeMessage(id, text) ==
  Message(id, "assistant", text, FALSE, None, None, None)

\* the fixed fallback greeting, abbreviated
FallbackText == <<"W", "e", "l", "c", "o", "m", "e">>

\* [...messages, userMessage, loadingMessage]
AppendTurn(msgs, userMessage, loadingMessage) ==
  msgs \o <<userMessage, loadingMessage>>

\* ReplaceLast without the slice(0, -1)
ReplaceLastKeepsPlaceholder(msgs, m) == msgs \o <<m>>

\* [...state.messages.slice(0, -1), m]
ReplaceLast(msgs, m) == SubSeq(msgs, 1, Len(msgs) - 1) \o <<m>>

\* NewRecentEmails falling back to an empty list
NewRecentEmailsOrNone(response, current) ==
  IF response.emails # None THEN response.emails[1] ELSE <<>>

\* response.emails ? response.emails : get().recentEmails
NewRecentEmails(response, current) ==
  IF response.emails # None THEN response.emails[1] ELSE current

\* CaughtMessage that never reads the error
CaughtMessageGeneric(e) == "An error occurred"

\* error instanceof Error ? error.message : "An error occurred"
CaughtMessage(e) == IF e.isError THEN e.message ELSE "An error occurred"

\* sendMessage, up to its await of api.sendChatMessage: the two messages
\* are appended, and the request is issued if getToken() finds a token
SendMessage(content) ==
  /\ calls < MaxOps
  /\ LET userMessage == UserMessage(GenerateId(1), content)
         loadingMessage == LoadingMessage(GenerateId(2))
     IN /\ messages' = AppendTurn(messages, userMessage, loadingMessage)
        /\ sends' = sends \cup {[uid |-> userMessage.id,
                                  req |-> GetToken # Null,
                                  text |-> content,
                                  before |-> messages]}
  /\ messageIdCounter' = messageIdCounter + 2
  /\ chatIsLoading' = TRUE
  /\ chatError' = Null
  /\ token' = GetToken
  /\ calls' = calls + 1
  /\ last' = NoEvent
  /\ UNCHANGED <<storage, authStore, recentEmails, pend>>

\* sendMessage after its await, the exchange having succeeded
SendMessageOk(c, response) ==
  /\ c \in sends /\ c.req
  /\ messages' = ReplaceLast(messages,
                             AssistantMessage(GenerateId(1), response))
  /\ messageIdCounter' = messageIdCounter + 1
  /\ chatIsLoading' = FALSE
  /\ recentEmails' = NewRecentEmails(response, recentEmails)
  /\ sends' = sends \ {c}
  /\ last' = EventOk("sendMessage", response)
  /\ UNCHANGED <<gateway, authStore, chatError, pend, calls>>

\* SendMessageFail with the request sent again: the call stays suspended
SendMessageFailRetries(c, cls) ==
  /\ c \in sends
  /\ IF c.req THEN cls \in FailClasses ELSE cls = "noToken"
  /\ AfterFailure(SendChatMessageClears(cls))
  /\ messages' = ReplaceLast(messages, ErrorMessage(GenerateId(1)))
  /\ messageIdCounter' = messageIdCounter + 1
  /\ chatIsLoading' = FALSE
  /\ chatError' = CaughtMessage(SendChatMessageError(cls))
  /\ sends' = sends
  /\ last' = EventErr("sendMessage", cls, SendChatMessageError(cls))
  /\ UNCHANGED <<authStore, recentEmails, pend, calls>>

\* sendMessage after its await, the exchange having failed in class cls
SendMessageFail(c, cls) ==
  /\ c \in sends
  /\ IF c.req THEN cls \in FailClasses ELSE cls = "noToken"
  /\ AfterFailure(SendChatMessageClears(cls))
  /\ messages' = ReplaceLast(messages, ErrorMessage(GenerateId(1)))
  /\ messageIdCounter' = messageIdCounter + 1
  /\ chatIsLoading' = FALSE
  /\ chatError' = CaughtMessage(SendChatMessageError(cls))
  /\ sends' = sends \ {c}
  /\ last' = EventErr("sendMessage", cls, SendChatMessageError(cls))
  /\ UNCHANGED <<authStore, recentEmails, pend, calls>>

\* who calls initializeChat: the chat container's effect on an empty
\* conversation ("mount"), or clearChat
Callers == {"mount", "clearChat"}

\* where a call of initializeChat waits: for the answer to its request, or,
\* getWelcomeMessage having thrown for want of a token, for its rejection
WelcomePoint(caller, sent) ==
  IF caller = "clearChat"
  THEN IF sent THEN "clearWelcomeReq" ELSE "clearWelcomeRej"
  ELSE IF sent THEN "welcomeReq" ELSE "welcomeRej"

\* the part of initializeChat before its await of api.getWelcomeMessage
StartInitializeChat(caller) ==
  /\ chatIsLoading' = TRUE
  /\ token' = GetToken
  /\ pend' = Suspend(WelcomePoint(caller, GetToken # Null))
  /\ calls' = calls + 1

InitializeChat ==
  /\ calls < MaxOps
  /\ StartInitializeChat("mount")
  /\ last' = NoEvent
  /\ UNCHANGED <<storage, authStore, messages, chatError, recentEmails,
                 messageIdCounter, sends>>

\* initializeChat after its await, the greeting having arrived
InitializeChatOk(caller, text) ==
  /\ pend[WelcomePoint(caller, TRUE)] > 0
  /\ messages' = <<WelcomeMessage(GenerateId(1), text)>>
  /\ messageIdCounter' = messageIdCounter + 1
  /\ chatIsLoading' = FALSE
  /\ pend' = Resume(WelcomePoint(caller, TRUE))
  /\ last' = WithArg(EventOk("initializeChat", text), caller)
  /\ UNCHANGED <<gateway, authStore, chatError, recentEmails, sends, calls>>

\* InitializeChatFail with a catch that only ends the loading
InitializeChatFailNoFallback(caller, cls) ==
  /\ \/ cls \in FailClasses /\ pend[WelcomePoint(caller, TRUE)] > 0
        /\ pend' = Resume(WelcomePoint(caller, TRUE))
     \/ cls = "noToken" /\ pend[WelcomePoint(caller, FALSE)] > 0
        /\ pend' = Resume(WelcomePoint(caller, FALSE))
  /\ AfterFailure(GetWelcomeMessageClears(cls))
  /\ chatIsLoading' = FALSE
  /\ last' = WithArg(EventErr("initializeChat", cls,
                              GetWelcomeMessageError(cls)), caller)
  /\ UNCHANGED <<authStore, messages, messageIdCounter, chatError,
                 recentEmails, sends, calls>>

\* InitializeChatFail with the catch of sendMessage, which sets `error`
InitializeChatFailSetsError(caller, cls) ==
  /\ \/ cls \in FailClasses /\ pend[WelcomePoint(caller, TRUE)] > 0
        /\ pend' = Resume(WelcomePoint(caller, TRUE))
     \/ cls = "noToken" /\ pend[WelcomePoint(caller, FALSE)] > 0
        /\ pend' = Resume(WelcomePoint(caller, FALSE))
  /\ AfterFailure(GetWelcomeMessageClears(cls))
  /\ messages' = <<WelcomeMessage(GenerateId(1), FallbackText)>>
  /\ messageIdCounter' = messageIdCounter + 1
  /\ chatIsLoading' = FALSE
  /\ chatError' = CaughtMessage(GetWelcomeMessageError(cls))
  /\ last' = WithArg(EventErr("initializeChat", cls,
                              GetWelcomeMessageError(cls)), caller)
  /\ UNCHANGED <<authStore, recentEmails, sends, calls>>

\* initializeChat after its await, the greeting fetch having failed
InitializeChatFail(caller, cls) ==
  /\ \/ cls \in FailClasses /\ pend[WelcomePoint(caller, TRUE)] > 0
        /\ pend' = Resume(WelcomePoint(caller, TRUE))
     \/ cls = "noToken" /\ pend[WelcomePoint(caller, FALSE)] > 0
        /\ pend' = Resume(WelcomePoint(caller, FALSE))
  /\ AfterFailure(GetWelcomeMessageClears(cls))
  /\ messages' = <<WelcomeMessage(GenerateId(1), FallbackText)>>
  /\ messageIdCounter' = messageIdCounter + 1
  /\ chatIsLoading' = FALSE
  /\ last' = WithArg(EventErr("initializeChat", cls,
                              GetWelcomeMessageError(cls)), caller)
  /\ UNCHANGED <<authStore, chatError, recentEmails, sends, calls>>

\* ClearChat with `recentEmails: []` left out of its set()
ClearChatKeepsEmails ==
  /\ calls < MaxOps
  /\ messages' = <<>>
  /\ chatError' = Null
  /\ StartInitializeChat("clearChat")
  /\ last' = NoEvent
  /\ UNCHANGED <<storage, authStore, recentEmails, messageIdCounter, sends>>

\* clearChat: the reset, then initializeChat up to its await
ClearChat ==
  /\ calls < MaxOps
  /\ messages' = <<>>
  /\ recentEmails' = <<>>
  /\ chatError' = Null
  /\ StartInitializeChat("clearChat")
  /\ last' = NoEvent
  /\ UNCHANGED <<storage, authStore, messageIdCounter, sends>>

\* ChatClearError with the conversation reset as well
ChatClearErrorResets ==
  /\ chatError' = Null
  /\ messages' = <<>>
  /\ last' = Event("clearError", "chat")
  /\ UNCHANGED <<gateway, authStore, chatIsLoading, recentEmails,
                 messageIdCounter, sends, pend, calls>>

\* the chat store's clearError
ChatClearError ==
  /\ chatError' = Null
  /\ last' = Event("clearError", "chat")
  /\ UNCHANGED <<gateway, authStore, messages, chatIsLoading, recentEmails,
                 messageIdCounter, sends, pend, calls>>

\* -------------------------------------------------------- dashboard page
\* DashboardPage shows the loading screen while the session isLoading and
\* nothing when it is not authenticated: the chat container, with its input
\* and its Clear Chat button, is on screen in no other state
ChatContainerRendered == ~authIsLoading /\ isAuthenticated

\* HandleSend with the input on screen whatever the session
HandleSendAnywhere(message) ==
  /\ Trim(message) # <<>>
  /\ ~chatIsLoading
  /\ SendMessage(Trim(message))

\* ChatInput.handleSend, which calls the container's handleSend, which calls
\* sendMessage
HandleSend(message) ==
  /\ ChatContainerRendered
  /\ Trim(message) # <<>>
  /\ ~chatIsLoading
  /\ SendMessage(Trim(message))

\* the container's effect: it runs when the container mounts and when
\* messages.length changes, and calls initializeChat on an empty conversation
ChatContainerEffect ==
  /\ ChatContainerRendered
  /\ messages = <<>>
  /\ InitializeChat

\* the Clear Chat button, disabled while the chat store isLoading
HandleClearChat ==
  /\ ChatContainerRendered
  /\ ~chatIsLoading
  /\ ClearChat

\* ------------------------------------------------------------ auth store
\* SetUnauthenticated with `user: null` left out
SetUnauthenticatedKeepsUser ==
  /\ user' = user
  /\ isAuthenticated' = FALSE
  /\ authIsLoading' = FALSE

\* set({ user: null, isAuthenticated: false, isLoading: false })
SetUnauthenticated ==
  /\ user' = Null
  /\ isAuthenticated' = FALSE
  /\ authIsLoading' = FALSE

\* set({ user, isAuthenticated: true, isLoading: false })
SetAuthenticated(profile) ==
  /\ user' = profile
  /\ isAuthenticated' = TRUE
  /\ authIsLoading' = FALSE

\* Initialize with `error: null` left out of its first set()
InitializeKeepsError ==
  /\ calls < MaxOps
  /\ authIsLoading' = TRUE
  /\ token' = GetToken
  /\ pend' = Suspend(IF GetToken # Null THEN "verifyReq" ELSE "verifyNone")
  /\ calls' = calls + 1
  /\ last' = NoEvent
  /\ UNCHANGED <<storage, user, isAuthenticated, authError, chatStore>>

\* Initialize with a verifyToken that sends its request without a token too
InitializeAlwaysVerifies ==
  /\ calls < MaxOps
  /\ authIsLoading' = TRUE
  /\ authError' = Null
  /\ token' = GetToken
  /\ pend' = Suspend("verifyReq")
  /\ calls' = calls + 1
  /\ last' = NoEvent
  /\ UNCHANGED <<storage, user, isAuthenticated, chatStore>>

\* initialize, up to its await of api.verifyToken: without a token
\* verifyToken answers {valid: false} and sends nothing
Initialize ==
  /\ calls < MaxOps
  /\ authIsLoading' = TRUE
  /\ authError' = Null
  /\ token' = GetToken
  /\ pend' = Suspend(IF GetToken # Null THEN "verifyReq" ELSE "verifyNone")
  /\ calls' = calls + 1
  /\ last' = NoEvent
  /\ UNCHANGED <<storage, user, isAuthenticated, chatStore>>

\* initialize after verifyToken answered valid: getCurrentUser is called,
\* which sends its request if getToken() still finds a token
InitializeValid ==
  /\ pend["verifyReq"] > 0
  /\ token' = GetToken
  /\ pend' = Move("verifyReq",
                  IF GetToken # Null THEN "initMeReq" ELSE "initMeRej")
  /\ last' = NoEvent
  /\ UNCHANGED <<storage, authStore, chatStore, calls>>

\* initialize after verifyToken answered without valid = true (whatever the
\* status: verifyToken returns the body of any response)
InitializeInvalid ==
  /\ \/ pend["verifyReq"] > 0 /\ pend' = Resume("verifyReq")
     \/ pend["verifyNone"] > 0 /\ pend' = Resume("verifyNone")
  /\ SetUnauthenticated
  /\ last' = Event("initialize", "invalid")
  /\ UNCHANGED <<gateway, authError, chatStore, calls>>

\* InitializeVerifyFail with a message put in `error`
InitializeVerifyFailShowsError(cls) ==
  /\ cls \in VerifyFailClasses
  /\ pend["verifyReq"] > 0
  /\ pend' = Resume("verifyReq")
  /\ user' = Null
  /\ isAuthenticated' = FALSE
  /\ authIsLoading' = FALSE
  /\ authError' = "Authentication failed. Please try again."
  /\ last' = EventErr("initialize", cls, RuntimeError(cls))
  /\ UNCHANGED <<gateway, chatStore, calls>>

\* initialize after verifyToken threw: the fetch or response.json() rejected
InitializeVerifyFail(cls) ==
  /\ cls \in VerifyFailClasses
  /\ pend["verifyReq"] > 0
  /\ pend' = Resume("verifyReq")
  /\ SetUnauthenticated
  /\ last' = EventErr("initialize", cls, RuntimeError(cls))
  /\ UNCHANGED <<gateway, authError, chatStore, calls>>

\* initialize after getCurrentUser returned the profile
InitializeOk(profile) ==
  /\ pend["initMeReq"] > 0
  /\ pend' = Resume("initMeReq")
  /\ SetAuthenticated(profile)
  /\ last' = EventOk("initialize", profile)
  /\ UNCHANGED <<gateway, authError, chatStore, calls>>

\* initialize after getCurrentUser threw
InitializeFail(cls) ==
  /\ \/ cls \in FailClasses /\ pend["initMeReq"] > 0
        /\ pend' = Resume("initMeReq")
     \/ cls = "noToken" /\ pend["initMeRej"] > 0
        /\ pend' = Resume("initMeRej")
  /\ AfterFailure(GetCurrentUserClears(cls))
  /\ SetUnauthenticated
  /\ last' = EventErr("initialize", cls, GetCurrentUserError(cls))
  /\ UNCHANGED <<authError, chatStore, calls>>

\* login, up to its await of api.getLoginUrl (which needs no token)
Login ==
  /\ calls < MaxOps
  /\ authIsLoading' = TRUE
  /\ authError' = Null
  /\ pend' = Suspend("loginReq")
  /\ calls' = calls + 1
  /\ last' = NoEvent
  /\ UNCHANGED <<gateway, user, isAuthenticated, chatStore>>

\* login after getLoginUrl answered: the browser is sent to the provider
LoginOk ==
  /\ pend["loginReq"] > 0
  /\ pend' = Resume("loginReq")
  /\ last' = Event("login", "ok")
  /\ UNCHANGED <<gateway, authStore, chatStore, calls>>

\* login after getLoginUrl threw
LoginFail(cls) ==
  /\ cls \in FailClasses
  /\ pend["loginReq"] > 0
  /\ pend' = Resume("loginReq")
  /\ authError' = "Failed to initiate login. Please try again."
  /\ authIsLoading' = FALSE
  /\ last' = Event("login", cls)
  /\ UNCHANGED <<gateway, user, isAuthenticated, chatStore, calls>>

\* logout, up to its await: api.logout sends its request if there is a
\* token, and otherwise runs clearToken() and returns
Logout ==
  /\ calls < MaxOps
  /\ IF GetToken # Null
     THEN /\ token' = GetToken
          /\ storage' = storage
          /\ pend' = Suspend("logoutReq")
     ELSE /\ ClearToken
          /\ pend' = Suspend("logoutNone")
  /\ calls' = calls + 1
  /\ last' = NoEvent
  /\ UNCHANGED <<authStore, chatStore>>

\* SetLoggedOut with `user: null` left out
SetLoggedOutKeepsUser ==
  /\ isAuthenticated' = FALSE
  /\ UNCHANGED <<user, authIsLoading, authError>>

\* set({ user: null, isAuthenticated: false }) of logout
SetLoggedOut ==
  /\ user' = Null
  /\ isAuthenticated' = FALSE
  /\ UNCHANGED <<authIsLoading, authError>>

\* logout after its await. cls = "ok": the request was answered (whatever
\* the status) and api.logout ran clearToken(); "netErr": the fetch
\* rejected and logout's catch ran clearToken(); "none": no request was sent
LogoutSettle(cls) ==
  /\ \/ cls \in {"ok", "netErr"} /\ pend["logoutReq"] > 0
        /\ pend' = Resume("logoutReq")
        /\ ClearToken
     \/ cls = "none" /\ pend["logoutNone"] > 0
        /\ pend' = Resume("logoutNone")
        /\ UNCHANGED gateway
  /\ SetLoggedOut
  /\ last' = Event("logout", cls)
  /\ UNCHANGED <<chatStore, calls>>

\* SetToken with api.setToken keeping the token in memory only
SetTokenNotPersisted(t) ==
  /\ calls < MaxOps
  /\ authIsLoading' = TRUE
  /\ authError' = Null
  /\ token' = t
  /\ storage' = storage
  /\ pend' = Suspend(t)
  /\ calls' = calls + 1
  /\ last' = NoEvent
  /\ UNCHANGED <<user, isAuthenticated, chatStore>>

\* setToken, up to its await of api.getCurrentUser
SetToken(t) ==
  /\ calls < MaxOps
  /\ authIsLoading' = TRUE
  /\ authError' = Null
  /\ token' = t
  /\ storage' = t
  /\ pend' = Suspend(t)
  /\ calls' = calls + 1
  /\ last' = NoEvent
  /\ UNCHANGED <<user, isAuthenticated, chatStore>>

\* setToken(t) after getCurrentUser returned the profile
SetTokenOk(t, profile) ==
  /\ pend[t] > 0
  /\ pend' = Resume(t)
  /\ SetAuthenticated(profile)
  /\ last' = WithArg(EventOk("setToken", profile), t)
  /\ UNCHANGED <<gateway, authError, chatStore, calls>>

\* setToken(t) after getCurrentUser threw: its catch runs clearToken()
SetTokenFail(t, cls) ==
  /\ cls \in FailClasses
  /\ pend[t] > 0
  /\ pend' = Resume(t)
  /\ ClearToken
  /\ SetUnauthenticated
  /\ authError' = "Authentication failed. Please try again."
  /\ last' = WithArg(EventErr("setToken", cls, GetCurrentUserError(cls)), t)
  /\ UNCHANGED <<chatStore, calls>>

\* AuthClearError with isLoading reset as well
AuthClearErrorEndsLoading ==
  /\ authError' = Null
  /\ authIsLoading' = FALSE
  /\ last' = Event("clearError", "auth")
  /\ UNCHANGED <<gateway, user, isAuthenticated, chatStore, pend, calls>>

\* the auth store's clearError
AuthClearError ==
  /\ authError' = Null
  /\ last' = Event("clearError", "auth")
  /\ UNCHANGED <<gateway, user, authIsLoading, isAuthenticated, chatStore,
                 pend, calls>>

\* --------------------------------------------------------- specification
Init ==
  /\ token = Null
  /\ storage \in InitialStorage
  /\ user = Null
  /\ authIsLoading = TRUE
  /\ isAuthenticated = FALSE
  /\ authError = Null
  /\ messages = <<>>
  /\ chatIsLoading = FALSE
  /\ chatError = Null
  /\ recentEmails = <<>>
  /\ messageIdCounter = 0
  /\ sends = {}
  /\ pend = [p \in Points |-> 0]
  /\ calls = 0
  /\ last = NoEvent

\* the page is loaded again: the module-level ApiClient and both stores are
\* constructed anew, the calls that were suspended are gone with the old
\* page, and localStorage is what it was
Restart ==
  /\ token' = Null
  /\ storage' = storage
  /\ user' = Null
  /\ authIsLoading' = TRUE
  /\ isAuthenticated' = FALSE
  /\ authError' = Null
  /\ messages' = <<>>
  /\ chatIsLoading' = FALSE
  /\ chatError' = Null
  /\ recentEmails' = <<>>
  /\ messageIdCounter' = 0
  /\ sends' = {}
  /\ pend' = [p \in Points |-> 0]
  /\ calls' = calls
  /\ last' = Event("restart", "ok")

\* ---------------------------------------------------------- callback page
\* values of the `token` query parameter of the inbound redirect:
\* searchParams.get gives null when it is absent, "" when it is empty
TokenParams == Tokens \cup {Null, ""}

\* values of the `error` query parameter, as character sequences: absent,
\* empty, or a text
ErrorTexts == {<<>>, <<"a", "_", "d">>, <<"a", " ", "%">>}
ErrorParams == {None} \cup {Some(e) : e \in ErrorTexts}

\* the condition of `if (token)`: null and "" are falsy
TokenGiven(tokenParam) == tokenParam \notin {Null, ""}

\* the condition of `else if (errorParam)`
ErrorGiven(errorParam) == errorParam # None /\ errorParam[1] # <<>>

\* the characters of the message setToken's catch stores in `error`
Chars(m) ==
  IF m = "Authentication failed. Please try again."
  THEN <<
     "A", "u", "t", "h", "e", "n", "t", "i", "c", "a", "t", "i", "o",
     "n", " ", "f", "a", "i", "l", "e", "d", ".", " ", "P", "l", "e",
     "a", "s", "e", " ", "t", "r", "y", " ", "a", "g", "a", "i", "n",
     "."
    >>
  ELSE <<>>

\* the characters encodeURIComponent leaves as they are, among those used
Unreserved ==
  {"a", "c", "d", "e", "f", "g", "h", "i", "l", "n", "o", "r", "s", "t", "u",
   "y", "A", "P", "_", "."}

\* the escape sequence of a character that is not left as it is
Escape(c) ==
  CASE c = " " -> <<"%", "2", "0">>
    [] c = "%" -> <<"%", "2", "5">>

\* the character an escape sequence stands for
Unescape(h, l) ==
  CASE h = "2" /\ l = "0" -> " "
    [] h = "2" /\ l = "5" -> "%"

\* the value searchParams.get gives the login page for an `error` parameter
\* written as `written`
RECURSIVE SearchParamValue(_)
SearchParamValue(written) ==
  IF written = <<>> THEN <<>>
  ELSE IF Head(written) = "%" /\ Len(written) >= 3
       THEN <<Unescape(written[2], written[3])>>
              \o SearchParamValue(SubSeq(written, 4, Len(written)))
       ELSE <<Head(written)>> \o SearchParamValue(Tail(written))

\* encodeURIComponent(text)
RECURSIVE EncodeURIComponent(_)
EncodeURIComponent(text) ==
  IF text = <<>> THEN <<>>
  ELSE (IF Head(text) \in Unreserved THEN <<Head(text)>>
        ELSE Escape(Head(text))) \o EncodeURIComponent(Tail(text))

\* what router.push did in the step just taken: the route, the value of its
\* error parameter as written into the URL, and the parameters the page was
\* loaded with when the step is the mount effect
CallbackEvent(op, route, written, params) ==
  [op |-> op, cls |-> route, resp |-> None, err |-> written, arg |-> params]

\* the callback page is on screen: loaded, and no router.push has left it
CallbackMounted ==
  ~(last.op \in {"callbackEffect", "callbackRedirect"}
      /\ last.cls \in {"/login", "/dashboard"})

\* CallbackContent's first effect, run once after the page has loaded: with a
\* token it calls setToken (up to its await of api.getCurrentUser), else with
\* an error it pushes the login route
CallbackEffect(tokenParam, errorParam) ==
  /\ last = Event("restart", "ok")
  /\ IF TokenGiven(tokenParam)
     THEN /\ calls < MaxOps
          /\ authIsLoading' = TRUE
          /\ authError' = Null
          /\ token' = tokenParam
          /\ storage' = tokenParam
          /\ pend' = Suspend(tokenParam)
          /\ calls' = calls + 1
          /\ last' = CallbackEvent("callbackEffect", "none", None,
                                   Some(<<tokenParam, errorParam>>))
          /\ UNCHANGED <<user, isAuthenticated, chatStore>>
     ELSE /\ last' = IF ErrorGiven(errorParam)
                     THEN CallbackEvent("callbackEffect", "/login",
                            Some(EncodeURIComponent(errorParam[1])),
                            Some(<<tokenParam, errorParam>>))
                     ELSE CallbackEvent("callbackEffect", "none", None,
                            Some(<<tokenParam, errorParam>>))
          /\ UNCHANGED <<gateway, authStore, chatStore, pend, calls>>

\* CallbackRedirect without the test of isAuthenticated
CallbackRedirectEarly ==
  /\ CallbackMounted
  /\ last' = CallbackEvent("callbackRedirect", "/dashboard", None, None)
  /\ UNCHANGED <<gateway, authStore, chatStore, pend, calls>>

\* the second effect and its timer: once isAuthenticated, push the dashboard
CallbackRedirect ==
  /\ CallbackMounted
  /\ isAuthenticated
  /\ last' = CallbackEvent("callbackRedirect", "/dashboard", None, None)
  /\ UNCHANGED <<gateway, authStore, chatStore, pend, calls>>

\* the third effect and its timer: once the store has an error, push the
\* login route with it
CallbackErrorRedirect ==
  /\ CallbackMounted
  /\ authError # Null
  /\ last' = CallbackEvent("callbackRedirect", "/login",
                           Some(EncodeURIComponent(Chars(authError))), None)
  /\ UNCHANGED <<gateway, authStore, chatStore, pend, calls>>

ChatNext ==
  \/ \E content \in Texts : SendMessage(content)
  \/ \E c \in sends, response \in Responses : SendMessageOk(c, response)
  \/ \E c \in sends, cls \in FailClasses \cup {"noToken"} :
        SendMessageFail(c, cls)
  \/ InitializeChat
  \/ \E caller \in Callers, text \in WelcomeTexts :
       InitializeChatOk(caller, text)
  \/ \E caller \in Callers, cls \in FailClasses \cup {"noToken"} :
       InitializeChatFail(caller, cls)
  \/ ClearChat
  \/ ChatClearError

AuthNext ==
  \/ Initialize
  \/ InitializeValid
  \/ InitializeInvalid
  \/ \E cls \in VerifyFailClasses : InitializeVerifyFail(cls)
  \/ \E profile \in Profiles : InitializeOk(profile)
  \/ \E cls \in FailClasses \cup {"noToken"} : InitializeFail(cls)
  \/ Login
  \/ LoginOk
  \/ \E cls \in FailClasses : LoginFail(cls)
  \/ Logout
  \/ \E cls \in {"ok", "netErr", "none"} : LogoutSettle(cls)
  \/ \E t \in Tokens : SetToken(t)
  \/ \E t \in Tokens, profile \in Profiles : SetTokenOk(t, profile)
  \/ \E t \in Tokens, cls \in FailClasses : SetTokenFail(t, cls)
  \/ AuthClearError

\* the steps of initialize
InitializeNext ==
  \/ Initialize
  \/ InitializeValid
  \/ InitializeInvalid
  \/ \E cls \in VerifyFailClasses : InitializeVerifyFail(cls)
  \/ \E profile \in Profiles : InitializeOk(profile)
  \/ \E cls \in FailClasses \cup {"noToken"} : InitializeFail(cls)

\* the Session a page may find when it mounts and calls initialize(): the
\* store as constructed, or as the callback page's setToken left it (failed:
\* error shown, credential cleared; succeeded: Authenticated)
SessionAtMount ==
  \/ Init
  \/ \E outcome \in {"failed", "ok"}, t \in Tokens, profile \in Profiles :
       /\ token = (IF outcome = "ok" THEN t ELSE Null)
       /\ storage = token
       /\ user = (IF outcome = "ok" THEN profile ELSE Null)
       /\ authIsLoading = FALSE
       /\ isAuthenticated = (outcome = "ok")
       /\ authError = (IF outcome = "ok" THEN Null
                       ELSE "Authentication failed. Please try again.")
       /\ messages = <<>>
       /\ chatIsLoading = FALSE
       /\ chatError = Null
       /\ recentEmails = <<>>
       /\ messageIdCounter = 0
       /\ sends = {}
       /\ pend = [p \in Points |-> 0]
       /\ calls = 0
       /\ last = NoEvent

\* initialize() alone, called any number of times, calls overlapping
InitializeSpec == SessionAtMount /\ [][InitializeNext]_vars

\* the chat store alone
ChatSpec == Init /\ [][ChatNext]_vars

\* the auth store alone
AuthSpec == Init /\ [][AuthNext]_vars

\* the gateway answers or fails a sendChatMessage request, or the call made
\* without a credential rejects
SendMessageSettles ==
  \E c \in sends :
    \/ \E response \in Responses : SendMessageOk(c, response)
    \/ \E cls \in FailClasses \cup {"noToken"} : SendMessageFail(c, cls)

\* the gateway answers or fails a getWelcomeMessage request, or the call made
\* without a credential rejects
InitializeChatSettles ==
  \E caller \in Callers :
    \/ \E text \in WelcomeTexts : InitializeChatOk(caller, text)
    \/ \E cls \in FailClasses \cup {"noToken"} : InitializeChatFail(caller, cls)

\* the chat store alone, every request eventually answered or failed: fetch
\* resolves or rejects each request, and the continuation of an awaited
\* promise is run once it has
ChatLiveSpec ==
  /\ Init
  /\ [][ChatNext]_vars
  /\ WF_vars(SendMessageSettles)
  /\ WF_vars(InitializeChatSettles)

\* calls that have not settled
Pending == {p \in Points : pend[p] > 0}

\* the auth store alone, each operation invoked once the one before it has
\* settled
AuthSeqNext ==
  /\ AuthNext
  /\ calls' # calls => Pending = {}

AuthSeqSpec == Init /\ [][AuthSeqNext]_vars

\* the chat store alone, each operation invoked once the one before it has
\* settled
ChatSeqNext ==
  /\ ChatNext
  /\ calls' # calls => (Pending = {} /\ sends = {})

ChatSeqSpec == Init /\ [][ChatSeqNext]_vars

\* the dashboard: the chat store called from the rendered chat container
\* only, the auth store called from any page
DashboardNext ==
  \/ \E message \in Texts : HandleSend(message)
  \/ \E c \in sends, response \in Responses : SendMessageOk(c, response)
  \/ \E c \in sends, cls \in FailClasses \cup {"noToken"} :
        SendMessageFail(c, cls)
  \/ ChatContainerEffect
  \/ \E caller \in Callers, text \in WelcomeTexts :
       InitializeChatOk(caller, text)
  \/ \E caller \in Callers, cls \in FailClasses \cup {"noToken"} :
       InitializeChatFail(caller, cls)
  \/ HandleClearChat
  \/ AuthNext

DashboardSpec == Init /\ [][DashboardNext]_vars

\* the dashboard of a signed-in user as the callback page's setToken left
\* it: the chat container is on screen
SignedInAtMount == SessionAtMount /\ isAuthenticated

\* the chat store driven by the chat container alone: its input, its Clear
\* Chat button and its effect, and the completions of the calls they start
ChatUiNext ==
  \/ \E message \in Texts : HandleSend(message)
  \/ \E c \in sends, response \in Responses : SendMessageOk(c, response)
  \/ \E c \in sends, cls \in FailClasses \cup {"noToken"} :
        SendMessageFail(c, cls)
  \/ ChatContainerEffect
  \/ \E caller \in Callers, text \in WelcomeTexts :
       InitializeChatOk(caller, text)
  \/ \E caller \in Callers, cls \in FailClasses \cup {"noToken"} :
       InitializeChatFail(caller, cls)
  \/ HandleClearChat

ChatUiSpec == SignedInAtMount /\ [][ChatUiNext]_vars

\* the auth store over page reloads
RestartNext ==
  \/ Restart
  \/ AuthNext

RestartSpec == Init /\ [][RestartNext]_vars

\* every caller of the gateway: both stores as the pages call them, and the
\* mailbox methods called directly
GatewayNext ==
  \/ \E op \in MailboxOps : MailboxCall(op)
  \/ \E op \in MailboxOps : MailboxOk(op)
  \/ \E op \in MailboxOps, cls \in FailClasses \cup {"noToken"} :
       MailboxFail(op, cls)
  \/ DashboardNext

GatewaySpec == Init /\ [][GatewayNext]_vars

\* the callback page: the inbound redirect loads it, its effects run, and
\* the setToken call it makes settles
CallbackNext ==
  \/ Restart
  \/ \E tokenParam \in TokenParams, errorParam \in ErrorParams :
       CallbackEffect(tokenParam, errorParam)
  \/ \E t \in Tokens, profile \in Profiles : SetTokenOk(t, profile)
  \/ \E t \in Tokens, cls \in FailClasses : SetTokenFail(t, cls)
  \/ CallbackRedirect
  \/ CallbackErrorRedirect

CallbackSpec == Init /\ [][CallbackNext]_vars

\* both stores over the one gateway
Next == ChatNext \/ AuthNext

Spec == Init /\ [][Next]_vars

\* ---------------------------------------------------------------- claims
Placeholders == {i \in 1..Len(messages) : messages[i].isLoading}

SendSettled == last.op = "sendMessage"
SendSucceeded == SendSettled /\ last.cls = "ok"
SendFailed == SendSettled /\ last.cls # "ok"

\* C1: in every reachable state at most one message has isLoading = true,
\* and when there is one it is the last element of messages.
C1_PlaceholderInvariant ==
  /\ Cardinality(Placeholders) <= 1
  /\ Placeholders # {} => Placeholders = {Len(messages)}

\* C2: the store keeps sendMessage single-in-flight: no state has two
\* exchange requests outstanding at once.
C2_SingleInFlight == Cardinality({c \in sends : c.req}) <= 1

\* C3: in the state reached when a sendMessage call resolves (success or
\* failure) no message has isLoading = true.
C3_NoPlaceholderAfterResolve == SendSettled => Placeholders = {}

\* C4: sendMessage called with the empty string or an all-whitespace string
\* appends no message, issues no request and changes no field of the store.
C4_BlankSendIsNoOp ==
  [][\A content \in Texts :
       (Trim(content) = <<>> /\ SendMessage(content)) =>
         /\ UNCHANGED <<messages, chatIsLoading, chatError, recentEmails>>
         /\ sends' = sends]_vars

\* C5: after a sendMessage whose exchange succeeded, the last message is an
\* assistant message whose content, emails, suggestedReplies and actionType
\* are the response's message, emails, suggested_replies and action_type.
C5_FinalMessageIsResponse ==
  SendSucceeded =>
    /\ messages # <<>>
    /\ LET m == messages[Len(messages)]
           r == last.resp[1]
       IN /\ m.role = "assistant"
          /\ ~m.isLoading
          /\ m.content = r.message
          /\ m.emails = r.emails
          /\ m.suggestedReplies = r.suggested_replies
          /\ m.actionType = r.action_type

C5_Witness ==
  /\ SendSucceeded
  /\ last.resp[1].suggested_replies = Some(<<"s1">>)
  /\ Len(messages) >= 2
  /\ messages[Len(messages) - 1].role = "user"

\* C6: when the exchange of a sendMessage fails (no credential, transport
\* failure, 401, other non-2xx) the call settles normally: the last message
\* is an assistant message with the fixed apology text and actionType
\* "error", and the store's error holds the thrown error's message.
C6_FailureBecomesApology ==
  SendFailed =>
    /\ messages # <<>>
    /\ LET m == messages[Len(messages)]
       IN /\ m.role = "assistant"
          /\ ~m.isLoading
          /\ m.content = ApologyText
          /\ m.actionType = Some("error")
    /\ chatError = last.err[1].message
    /\ chatError # Null

C6_Witness ==
  /\ SendFailed
  /\ last.cls = "netErr"
  /\ chatError = "TypeError: Failed to fetch"
  /\ messages[Len(messages)].content = ApologyText

\* C7: a failed exchange wipes the credential (memory and storage) if and
\* only if it failed with a 401; any other failure leaves both as they
\* were, and issuing the request changes neither the persisted token nor
\* the token getToken() answers.
C7_WipeIffUnauthorized ==
  [][/\ (\E content \in Texts : SendMessage(content)) =>
          (storage' = storage /\ GetToken' = GetToken)
     /\ (last'.op = "sendMessage" /\ last'.cls # "ok") =>
          IF last'.cls = "http401"
          THEN token' = Null /\ storage' = Null
          ELSE token' = token /\ storage' = storage]_vars

C7_Witness ==
  /\ SendFailed
  /\ last.cls = "http401"
  /\ token = Null
  /\ storage = Null
  /\ chatError = "Session expired"

\* C8: whenever a gateway call fails with a 401 the Session is forced to
\* Unauthenticated: no state has an observed 401 and isAuthenticated = true
\* or a user present. (The credential half of the claim is C9.)
C8_UnauthorizedForcesSignOut ==
  last.cls = "http401" => (~isAuthenticated /\ user = Null)

\* C9: a 401 answer to any authenticated gateway operation leaves the
\* gateway without a credential, in memory and in storage.
C9_UnauthorizedWipesCredential ==
  last.cls = "http401" => (token = Null /\ storage = Null)

\* C10: once a logout() call settles, isAuthenticated = false, user is
\* absent, the status is not Verifying (isLoading = false) and the
\* credential is absent from memory and storage.
C10_LogoutSettlesSignedOut ==
  last.op = "logout" =>
    /\ ~isAuthenticated
    /\ user = Null
    /\ ~authIsLoading
    /\ token = Null
    /\ storage = Null

\* initialize() calls that have not settled
InitializePending ==
  pend["verifyReq"] + pend["verifyNone"] + pend["initMeReq"]
    + pend["initMeRej"]

\* C11: once every initialize() call of a sequence (overlapping or not) has
\* settled, isLoading = false, error is absent, and the Session is either
\* Authenticated with a user or Unauthenticated without one.
C11_InitializeSettlesWhole ==
  (calls > 0 /\ InitializePending = 0) =>
    /\ ~authIsLoading
    /\ authError = Null
    /\ \/ isAuthenticated /\ user # Null
       \/ ~isAuthenticated /\ user = Null

C11_Witness ==
  /\ calls >= 2
  /\ InitializePending = 0
  /\ last.op = "initialize"
  /\ isAuthenticated
  /\ user = "bob"

\* C12: once isLoading = false has been reported, the completion of an
\* initialize() still pending never switches the status between
\* Authenticated and Unauthenticated: the status changes between two
\* settled states only when a new operation is invoked.
C12_NoFlickerOnceSettled ==
  [][(~authIsLoading /\ ~authIsLoading' /\ calls' = calls) =>
       isAuthenticated' = isAuthenticated]_vars

\* C13 as stated: the profile is present exactly when the status is
\* Authenticated, the status being Verifying while isLoading is true and
\* otherwise Authenticated or Unauthenticated according to isAuthenticated.
C13_UserIffStatusAuthenticated ==
  (user # Null) <=> (~authIsLoading /\ isAuthenticated)

\* C13: under any interleaving of the auth store's operations the profile is
\* present exactly when isAuthenticated is true; isLoading has no part in it,
\* a call made while signed in keeps the profile while it is in flight.
C13_UserIffIsAuthenticated == (user # Null) <=> isAuthenticated

C13_Witness ==
  /\ user # Null /\ isAuthenticated /\ authIsLoading
  /\ pend["verifyReq"] > 0

SetTokenSettled == last.op = "setToken"

\* C14: when setToken's profile fetch fails, whatever the failure, the call
\* settles with the credential cleared from memory and from storage, the
\* session unauthenticated without a user, isLoading false and a non-empty
\* message in error.
C14_SetTokenFailureClearsAll ==
  (SetTokenSettled /\ last.cls # "ok") =>
    /\ token = Null /\ storage = Null
    /\ ~isAuthenticated /\ user = Null /\ ~authIsLoading
    /\ authError = "Authentication failed. Please try again."
    /\ authError # Null

C14_Witness ==
  /\ SetTokenSettled /\ last.cls = "httpErr" /\ last.arg = Some("tokB")
  /\ storage = Null /\ authError # Null /\ calls >= 2

\* C15: setToken(t), called once the call before it has settled, stores t in
\* memory and in storage and shows isLoading with error cleared while the
\* profile is fetched; when the fetch succeeds it settles authenticated with
\* the fetched profile as user, isLoading false, and t still the credential
\* in memory and in storage.
C15_SetTokenSuccess ==
  /\ \A t \in Tokens :
       pend[t] > 0 =>
         authIsLoading /\ authError = Null /\ token = t /\ storage = t
  /\ (SetTokenSettled /\ last.cls = "ok") =>
       /\ isAuthenticated /\ user = last.resp[1] /\ ~authIsLoading
       /\ token = last.arg[1] /\ storage = last.arg[1]

C15_Witness ==
  /\ SetTokenSettled /\ last.cls = "ok" /\ last.arg = Some("tokB")
  /\ user = "bob" /\ storage = "tokB" /\ calls = MaxOps

\* C16: when initialize's verification call fails, or verification reports
\* valid and the profile fetch then fails, the call settles unauthenticated
\* without a user, with isLoading false and error absent.
C16_InitializeFailureIsSilent ==
  (last.op = "initialize" /\ last.err # None) =>
    /\ ~isAuthenticated /\ user = Null /\ ~authIsLoading
    /\ authError = Null

C16_Witness ==
  /\ last.op = "initialize" /\ last.cls = "httpErr"
  /\ ~isAuthenticated /\ storage # Null /\ calls >= 2

\* C17 as stated: error goes from absent to present only when a setToken
\* fails.
C17_OnlySetTokenFailureSetsError ==
  [][(authError = Null /\ authError' # Null) =>
       (last'.op = "setToken" /\ last'.cls # "ok")]_vars

\* C17: error goes from absent to present only when a setToken fails or a
\* login fails to obtain the login URL; initialize, logout and clearError
\* never make it present.
C17_OnlySetTokenOrLoginFailureSetsError ==
  [][(authError = Null /\ authError' # Null) =>
       \/ /\ last'.op = "setToken" /\ last'.cls # "ok"
          /\ authError' = "Authentication failed. Please try again."
       \/ /\ last'.op = "login" /\ last'.cls # "ok"
          /\ authError' = "Failed to initiate login. Please try again."]_vars

C17_Witness ==
  /\ last.op = "login" /\ last.cls = "netErr"
  /\ authError = "Failed to initiate login. Please try again."

GreetingSettled == last.op = "initializeChat"

\* C18: when the greeting fetch started by clearChat settles, the conversation
\* is one assistant message that is not a placeholder: the server's greeting
\* when the fetch succeeded, the fixed fallback greeting when it failed.
C18_ClearChatEndsWithGreeting ==
  (GreetingSettled /\ last.arg = Some("clearChat")) =>
    /\ Len(messages) = 1
    /\ messages[1].role = "assistant"
    /\ ~messages[1].isLoading
    /\ messages[1].content =
         (IF last.cls = "ok" THEN last.resp[1] ELSE FallbackText)

C18_Witness ==
  /\ GreetingSettled /\ last.arg = Some("clearChat") /\ last.cls = "netErr"
  /\ messages # <<>> /\ messages[1].content = FallbackText
  /\ sends # {}

\* C19: every initializeChat call, whether the greeting fetch succeeds or
\* fails, settles with a non-empty conversation and isLoading false, and no
\* step of it, the call or the settlement, puts a message in the chat
\* store's error.
C19_InitializeChatNeverEmptyNeverError ==
  [][/\ GreetingSettled' => (messages' # <<>> /\ ~chatIsLoading')
     /\ (GreetingSettled' \/
         \E caller \in Callers, sent \in BOOLEAN :
           pend'[WelcomePoint(caller, sent)] > pend[WelcomePoint(caller, sent)])
          => (chatError' = chatError \/ chatError' = Null)]_vars

C19_Witness ==
  /\ GreetingSettled /\ last.arg = Some("mount") /\ last.cls = "httpErr"
  /\ chatError # Null /\ messages # <<>>

\* C20: a greeting fetch that completes while the conversation is not empty
\* leaves the messages as they are.
C20_GreetingOnlySeedsEmpty ==
  [][(GreetingSettled' /\ messages # <<>>) => messages' = messages]_vars

\* C21: a sendMessage(text) called with no other chat operation in flight
\* generates three message ids, and when it settles the conversation is the
\* one it found, in the same order, followed by the user message carrying
\* text and one assistant message that is not a placeholder.
C21_SendAddsUserAndFinal ==
  [][SendSettled' =>
       \E c \in sends \ sends' :
         LET n == Len(c.before)
         IN /\ Len(messages') = n + 2
            /\ SubSeq(messages', 1, n) = c.before
            /\ messages'[n + 1] = UserMessage(c.uid, c.text)
            /\ messages'[n + 2].role = "assistant"
            /\ ~messages'[n + 2].isLoading
            /\ messages'[n + 2].id = c.uid + 2
            /\ messageIdCounter' = c.uid + 2]_vars

C21_Witness ==
  /\ SendSucceeded
  /\ Len(messages) = 5
  /\ messages[4] = UserMessage(messages[4].id, <<"h", "i">>)
  /\ messages[5].id = messages[4].id + 2

\* initializeChat calls, from either caller, that have not settled
GreetingPending ==
  pend["welcomeReq"] + pend["welcomeRej"] + pend["clearWelcomeReq"]
    + pend["clearWelcomeRej"]

C23_ClearChatResets ==
  [][/\ pend'["clearWelcomeReq"] + pend'["clearWelcomeRej"]
          > pend["clearWelcomeReq"] + pend["clearWelcomeRej"] =>
          (messages' = <<>> /\ recentEmails' = <<>> /\ chatIsLoading')
     /\ (GreetingSettled' /\ last'.arg = Some("clearChat")) =>
          /\ Len(messages') = 1
          /\ messages'[1].role = "assistant"
          /\ ~messages'[1].isLoading
          /\ messages'[1].content \in WelcomeTexts \cup {FallbackText}
          /\ recentEmails' = <<>>
          /\ ~chatIsLoading']_vars

C23_Witness ==
  /\ GreetingSettled /\ last.arg = Some("clearChat")
  /\ messageIdCounter = 4
  /\ recentEmails = <<>>
  /\ Len(messages) = 1

\* C24: no exchange request goes out from a state where the session is not
\* Authenticated (isAuthenticated false, or isLoading true): the chat store
\* is called from the chat container only, which the dashboard page renders
\* in no such state.
C24_NoExchangeUnlessAuthenticated ==
  [][(\E c \in sends' \ sends : c.req) =>
       (isAuthenticated /\ ~authIsLoading)]_vars

C24_Witness ==
  /\ \E c \in sends : c.req
  /\ ~isAuthenticated
  /\ last.op = "logout"

\* requests sent and not yet answered
RequestsInFlight ==
  pend["welcomeReq"] + pend["clearWelcomeReq"] + pend["verifyReq"]
    + pend["initMeReq"] + pend["logoutReq"] + pend["loginReq"]
    + pend["tokA"] + pend["tokB"]
    + pend["fetchEmails"] + pend["sendEmail"] + pend["deleteEmail"]
    + Cardinality({c \in sends : c.req})

\* C25: verifyToken never throws: whenever a verification request completes,
\* whatever its outcome, the call returns a value and no error is thrown.
C25_VerifyTokenNeverThrows ==
  [][pend'["verifyReq"] < pend["verifyReq"] => last'.err = None]_vars

\* C26: with no credential in memory or in storage, initialize() sends no
\* request: verifyToken answers {valid: false} at once, and the call settles
\* unauthenticated, without a user, isLoading false, no request having gone
\* out.
C26_NoCredentialNoRequest ==
  [][/\ (calls' = calls + 1 /\ token = Null /\ storage = Null) =>
          /\ RequestsInFlight' = RequestsInFlight
          /\ pend'["verifyNone"] = pend["verifyNone"] + 1
     /\ pend'["verifyNone"] < pend["verifyNone"] =>
          /\ last' = Event("initialize", "invalid")
          /\ ~isAuthenticated' /\ user' = Null /\ ~authIsLoading'
          /\ RequestsInFlight' = RequestsInFlight
          /\ UNCHANGED gateway]_vars

C26_Witness ==
  /\ last = Event("initialize", "invalid")
  /\ token = Null /\ storage = Null
  /\ calls = 1 /\ RequestsInFlight = 0
  /\ ~authIsLoading /\ ~isAuthenticated

\* C27: the credential survives a restart. A restart empties the in-memory
\* token and keeps the stored one, so getToken() answers after it what it
\* answered before; setToken(t) stores t, memory never holds a token that
\* storage lacks, and whatever else empties the in-memory token (clearToken,
\* from logout or after a 401 or in setToken's catch) empties storage too, so
\* after it and a restart there is no credential.
C27_CredentialSurvivesRestart ==
  [][/\ last'.op = "restart" =>
          (token' = Null /\ storage' = storage /\ GetToken' = GetToken)
     /\ \A t \in Tokens :
          pend'[t] > pend[t] => (storage' = t /\ GetToken' = t)
     /\ token' # Null => storage' = token'
     /\ (token # Null /\ token' = Null /\ last'.op # "restart") =>
          (storage' = Null /\ GetToken' = Null)]_vars

C27_Witness ==
  /\ last.op = "restart"
  /\ token = Null /\ storage = "tokB" /\ GetToken = "tokB"

\* C28: what getToken() answers and what storage holds change only in a
\* setToken call, in a clearToken of logout or of setToken's catch, or when
\* a 401 is observed; every other step - a gateway method succeeding or
\* failing otherwise, initialize settling without a 401 - leaves both alone.
C28_CredentialFrame ==
  [][(storage' # storage \/ GetToken' # GetToken) =>
       \/ \E t \in Tokens : pend'[t] > pend[t]
       \/ last'.op = "logout"
       \/ last'.op = "setToken" /\ last'.cls # "ok"
       \/ last'.cls = "http401"]_vars

C28_Witness ==
  /\ last.op = "fetchEmails" /\ last.cls = "httpErr"
  /\ token = "tokB" /\ storage = "tokB"

\* what the gateway method behind a settled call throws for a failure of
\* class cls
GatewayError(op, cls) ==
  CASE op = "sendMessage" -> SendChatMessageError(cls)
    [] op = "initializeChat" -> GetWelcomeMessageError(cls)
    [] op \in MailboxOps -> MailboxError(op, cls)
    [] OTHER -> GetCurrentUserError(cls)

\* C29: a gateway failure falls in exactly one of three classes the caller
\* can tell apart; in particular a 401 is reported differently from another
\* non-2xx answer and from a transport failure, and comes with the credential
\* wiped.
C29_ThreeFailureClasses ==
  (last.err # None /\ last.cls = "http401") =>
    /\ token = Null /\ storage = Null
    /\ last.err[1] # GatewayError(last.op, "httpErr")
    /\ last.err[1] # GatewayError(last.op, "netErr")

\* C30: nothing is retried. A step adds at most one request to those in
\* flight, a step that settles a call adds none, and the step that settles a
\* sendMessage, successfully or not, takes that call and its one request out
\* of flight and leaves every other where it was.
C30_NoRetry ==
  [][/\ RequestsInFlight' <= RequestsInFlight + 1
     /\ last'.op # "none" => RequestsInFlight' <= RequestsInFlight
     /\ SendSettled' =>
          \E c \in sends :
            /\ sends' = sends \ {c}
            /\ pend' = pend
            /\ RequestsInFlight' =
                 RequestsInFlight - (IF c.req THEN 1 ELSE 0)]_vars

C30_Witness ==
  /\ SendFailed /\ last.cls = "netErr"
  /\ sends = {} /\ RequestsInFlight = 0

\* ids of the messages in a conversation
Ids(msgs) == {msgs[i].id : i \in 1..Len(msgs)}

\* C31: message ids come from a counter that only grows: no two messages of
\* the conversation share an id, no id in the conversation is ahead of the
\* counter, and every id a step generates is larger than the counter was, so
\* it differs from every id generated before it, those of replaced
\* placeholders and of messages removed by a reset included.
C31_IdsDistinct ==
  [][/\ messageIdCounter' >= messageIdCounter
     /\ Cardinality(Ids(messages')) = Len(messages')
     /\ \A id \in Ids(messages') : id <= messageIdCounter'
     /\ \A id \in Ids(messages') \ Ids(messages) : id > messageIdCounter]_vars

C31_Witness ==
  /\ GreetingSettled /\ last.arg = Some("clearChat")
  /\ Ids(messages) = {4}
  /\ messageIdCounter = 4

\* C32: the auth store's clearError() leaves error absent and changes nothing
\* else: user, isAuthenticated, isLoading, the credential and the calls in
\* flight are what they were, also while an initialize or setToken is in
\* flight.
C32_AuthClearErrorFrame ==
  [][last' = Event("clearError", "auth") =>
       /\ authError' = Null
       /\ UNCHANGED <<user, isAuthenticated, authIsLoading, token, storage,
                      pend>>]_vars

C32_Witness ==
  /\ last = Event("clearError", "auth")
  /\ authError = Null
  /\ authIsLoading /\ pend["tokB"] > 0 /\ pend["verifyReq"] > 0

\* C33: the chat store's clearError() leaves error absent and changes nothing
\* else: messages, recentEmails, isLoading and the calls in flight are what
\* they were, also while an exchange is in flight.
C33_ChatClearErrorFrame ==
  [][last' = Event("clearError", "chat") =>
       /\ chatError' = Null
       /\ UNCHANGED <<messages, recentEmails, chatIsLoading, sends, pend,
                      messageIdCounter>>]_vars

C33_Witness ==
  /\ last = Event("clearError", "chat")
  /\ chatError = Null
  /\ \E c \in sends : c.req
  /\ \E i \in 1..Len(messages) : messages[i].actionType = Some("error")

\* C34: the chat store's isLoading is true in every state in which the request
\* of an exchange is outstanding; no other operation's completion makes it
\* false while an exchange is in flight.
C34_BusyWhileExchangeOutstanding == (\E c \in sends : c.req) => chatIsLoading

\* isLoading is false once no chat operation is in flight (this part of C34
\* holds of the store)
C34_IdleMeansNotBusy == (sends = {} /\ GreetingPending = 0) => ~chatIsLoading

\* C36: between resets the conversation only grows and only its placeholder is
\* replaced: the completion of a sendMessage or of an initializeChat leaves
\* every message that is not a placeholder at its position.
C36_CompletionKeepsFinalMessages ==
  [][(SendSettled' \/ GreetingSettled') =>
       \A i \in 1..Len(messages) :
         ~messages[i].isLoading =>
           (i <= Len(messages') /\ messages'[i] = messages[i])]_vars

\* C37: whenever the session is settled Authenticated (isAuthenticated true,
\* isLoading false), the gateway holds a credential, in memory or persisted.
C37_AuthenticatedHoldsCredential ==
  (isAuthenticated /\ ~authIsLoading) => GetToken # Null

\* C38: once a logout() has settled, the late completion of an initialize()
\* or setToken() that was in flight does not make the session Authenticated:
\* the step after the settlement, unless it starts a new call, leaves
\* isAuthenticated false.
C38_NoSignInAfterLogoutSettles ==
  [][(last.op = "logout" /\ calls' = calls) => ~isAuthenticated']_vars

\* C35: with the chat store driven only by the chat container (input and
\* Clear Chat button enabled only while isLoading is false, the effect calling
\* initializeChat on an empty conversation), at most one exchange is in
\* flight, and a greeting fetch that settles while an exchange is outstanding
\* neither overwrites nor shortens the conversation.
C35_UiKeepsExchangeAlone ==
  [][/\ Cardinality({c \in sends' : c.req}) <= 1
     /\ (GreetingSettled' /\ \E c \in sends : c.req) =>
          /\ Len(messages') >= Len(messages)
          /\ \A i \in 1..Len(messages) : messages'[i] = messages[i]]_vars

\* C39: with every request eventually answered or failed, every sendMessage
\* call resolves, every placeholder is eventually replaced, and the store
\* returns to isLoading = false.
C39_EveryExchangeCompletes ==
  /\ (sends # {}) ~> (sends = {})
  /\ (Placeholders # {}) ~> (Placeholders = {})
  /\ chatIsLoading ~> ~chatIsLoading

\* the parts of C39 that hold of the store: every call resolves and the store
\* returns to not busy
C39_CallsResolve == (sends # {}) ~> (sends = {})

C39_BusyEnds == chatIsLoading ~> ~chatIsLoading

\* the step just taken was the callback page's mount effect
CallbackEffectRan == last.op = "callbackEffect"

\* the token and error parameters the callback page was loaded with
TokenParamOf(event) == event.arg[1][1]
ErrorParamOf(event) == event.arg[1][2]

\* the mount effect called setToken(t), once, on the freshly loaded page
SetTokenCalledOnce(t) ==
  /\ calls' = calls + 1
  /\ pend' = [p \in Points |-> IF p = t THEN 1 ELSE 0]
  /\ token' = t /\ storage' = t
  /\ authIsLoading'

\* the mount effect called nothing, left credential and session as they
\* were, and pushed the login route with error e
RoutedToLoginWith(e) ==
  /\ calls' = calls /\ pend' = pend
  /\ UNCHANGED <<token, storage, user, isAuthenticated, authIsLoading,
                 authError>>
  /\ last'.cls = "/login"
  /\ last'.err # None
  /\ SearchParamValue(last'.err[1]) = e

\* the dashboard route is pushed only in a session setToken has made
\* Authenticated, and no step but the mount effect starts a call
DashboardOnlyWhenAuthenticated ==
  /\ (last'.op = "callbackRedirect" /\ last'.cls = "/dashboard") =>
       /\ isAuthenticated /\ ~authIsLoading
       /\ user \in Profiles
       /\ Pending = {}
  /\ calls' # calls => CallbackEffectRan'

\* C40 as stated: the callback handler calls setToken exactly once when the
\* redirect carries a token parameter; when it carries only an error
\* parameter it calls nothing, leaves credential and session unchanged and
\* routes to login with that error; it routes to the dashboard only after
\* setToken has made the session Authenticated.
C40_CallbackHandlesParameters ==
  [][/\ (CallbackEffectRan' /\ TokenParamOf(last') # Null) =>
          SetTokenCalledOnce(TokenParamOf(last'))
     /\ (CallbackEffectRan' /\ TokenParamOf(last') = Null
           /\ ErrorParamOf(last') # None) =>
          RoutedToLoginWith(ErrorParamOf(last')[1])
     /\ DashboardOnlyWhenAuthenticated]_vars

\* C40, amended: the same for a token parameter that is not empty, and for a
\* non-empty error parameter that comes with no token or an empty one; a
\* parameter that is present but empty is treated as absent.
C40_CallbackHandlesGivenParameters ==
  [][/\ (CallbackEffectRan' /\ TokenGiven(TokenParamOf(last'))) =>
          SetTokenCalledOnce(TokenParamOf(last'))
     /\ (CallbackEffectRan' /\ ~TokenGiven(TokenParamOf(last'))
           /\ ErrorGiven(ErrorParamOf(last'))) =>
          RoutedToLoginWith(ErrorParamOf(last')[1])
     /\ (CallbackEffectRan' /\ ~TokenGiven(TokenParamOf(last'))
           /\ ~ErrorGiven(ErrorParamOf(last'))) =>
          /\ last'.cls = "none"
          /\ UNCHANGED <<gateway, authStore, pend, calls>>
     /\ DashboardOnlyWhenAuthenticated]_vars

C40_Witness ==
  /\ last.op = "callbackRedirect" /\ last.cls = "/dashboard"
  /\ isAuthenticated /\ token = "tokB" /\ storage = "tokB"
  /\ calls = 2

C40_WitnessErrorOnly ==
  /\ CallbackEffectRan /\ last.cls = "/login"
  /\ TokenParamOf(last) = ""
  /\ ErrorParamOf(last) = Some(<<"a", " ", "%">>)
  /\ last.err = Some(<<"a", "%", "2", "0", "%", "2", "5">>)

====
